---- MODULE Spec2Model ----
(***************************************************************************)
(* Client-side behavioural telemetry of the framehaus starter template:    *)
(*   - the identity store            (src/src/lib/session.ts)              *)
(*   - the consent-aware tracker     (src/unnamed/part_009)                *)
(*   - the queued tracker            (src/src/lib/brand.ts, l. 250-644)    *)
(* Time is the wall clock Date.now() in milliseconds.  Identifiers made by *)
(* generateUUID are drawn from a counter: two generated ids never collide. *)
(* An ISO timestamp keeps the millisecond, so a stored timestamp is the    *)
(* millisecond count it was written from.                                  *)
(***************************************************************************)
EXTENDS Integers, Sequences, FiniteSets, TLC

VARIABLES
  now,              \* Date.now(), ms
  ticks,            \* clock advances made so far (bounds the run)
  storageMode,      \* "ok" | "nowrite" (setItem throws) | "down" (every access throws)
  sr_visitor,       \* localStorage['sr_visitor']: an id, 0 when absent
  sr_session,       \* localStorage['sr_session']: <<>> when absent, else <<SessionData>>
  nextId,           \* the next identifier generateUUID hands out
  retSession,       \* value returned by the latest getSessionId() call (0: none yet)
  retVisitor,       \* value returned by the latest getVisitorId() call (0: none yet)
  lastSessionCallAt,\* time of the latest getSessionId() call since the session key
                    \* was last removed by another operation (0: none)
  prevSessionCallAt,\* lastSessionCallAt as it was before the latest getSessionId() call
  sessionBranch,    \* the branch the latest getSessionId() call took:
                    \* "none" | "created" | "expired" | "updated"
  retNewVisitor,    \* value returned by the latest isNewVisitor() call (FALSE: none yet)
  \* ---- consent-aware tracker (src/unnamed/part_009) ----
  trackingEnabled,        \* config.trackingEnabled
  consentGiven,
  isInitialized,
  pageLoadTime,
  sessionStartTime,
  propertyViewStartTime,
  blogViewStartTime,
  maxScrollDepth,
  listeners,              \* teardown handlers in registration order: "exit" | "property" | "blog"
  hasBeaconApi,           \* navigator.sendBeacon exists
  sent,                   \* requests the latest tracker call issued, in order: [event_type, via, dur]
  revokedSinceGrant,      \* consent went granted -> not granted and was not granted again
  scrollReported,         \* scroll_depth of the blog_scroll_depth events sent so far, in order
  scrollPercentSeen,      \* scrollPercent of the latest scroll event (0: none yet)
  favServer,              \* the collector's record: the property is a favourite of the visitor
  favCalls,               \* toggleFavourite() calls in call order:
                          \* [phase, read, action, outcome, result, ret]
  favLastPost,            \* index of the call whose toggle request the collector applied last
  evGenerated,            \* events trackEvent() has handed to sendEvent() so far
  evInFlight,             \* generation numbers of the track-event requests not yet arrived
  evDelivered,            \* generation numbers in the order the collector received them
  \* ---- queued tracker (src/src/lib/brand.ts, class StratosTracker) ----
  config,                 \* <<>> before init(config), else <<[cookieConsent |-> ...]>>
  q_isInitialized,        \* this.isInitialized
  sessionId,              \* this.sessionId, 0 for null
  visitorId,              \* this.visitorId, 0 for null
  q_sessionStartTime,     \* this.sessionStartTime, 0 for null
  pageViewCount,
  eventQueue,             \* CreateEventRequest entries: [id, session_id, event_type]
  isProcessingQueue,
  pending,                \* track-event requests awaited by a drain loop, one per loop
  createPending,          \* create-session requests awaited by startSession()
  unloadHandlers,         \* beforeunload listeners installed by setupUnloadHandler()
  sessionUpdates,         \* update-session requests the latest call issued, in order:
                          \* [session_id, duration_seconds, page_views_count]
  unloadSeen,             \* the latest call was the dispatch of beforeunload
  ls_visitor_id,          \* localStorage['stratos_visitor_id'], 0 when absent
  ls_cookie_consent,      \* localStorage['stratos_cookie_consent'] = 'true'
  ss_session_id,          \* sessionStorage['stratos_session_id'], 0 when absent
  ss_session_start,       \* sessionStorage['stratos_session_start'], 0 when absent
  q_nextId,               \* next identifier (generateUUID, and the collector's session ids)
  enqueued,               \* ids of the events pushed on eventQueue, in push order
  accepted,               \* ids of the events the collector answered with 2xx, in order
  q_threw,                \* the latest call of a tracker method threw to its caller
  \* ---- legacy tracker (src/unnamed/part_000, class StratosTracker) ----
  lg_storage,             \* localStorage as the legacy tracker finds it: "ok" | "nowrite" |
                          \* "down" | "volatile" (setItem succeeds, getItem returns null)
  lg_trackingEnabled,     \* config.trackingEnabled after the constructor
  lg_session,             \* localStorage['stratos_session_id'], 0 when absent
  lg_expiry,              \* localStorage['stratos_session_expiry'], 0 when absent
  lg_nextId,              \* the next id crypto.randomUUID() hands out
  lg_sent,                \* requests the latest call issued, in order: [event_type, session_id]
  lg_ret,                 \* value returned by the latest getSessionId() call (0: none yet)
  lg_overflow             \* the latest call ran into the engine's call-stack limit

legacyVars == <<lg_storage, lg_trackingEnabled, lg_session, lg_expiry, lg_nextId, lg_sent,
                lg_ret, lg_overflow>>
idVars == <<storageMode, sr_visitor, sr_session, nextId, retSession, retVisitor,
            lastSessionCallAt, prevSessionCallAt, sessionBranch, retNewVisitor>>
clockVars == <<now, ticks>>
trackerVars == <<trackingEnabled, consentGiven, isInitialized, pageLoadTime, sessionStartTime,
                 propertyViewStartTime, blogViewStartTime, maxScrollDepth, listeners,
                 hasBeaconApi, sent, revokedSinceGrant, scrollReported, scrollPercentSeen,
                 favServer, favCalls, favLastPost, evGenerated, evInFlight, evDelivered>>
queueVars == <<config, q_isInitialized, sessionId, visitorId, q_sessionStartTime, pageViewCount,
               eventQueue, isProcessingQueue, pending, createPending, unloadHandlers, sessionUpdates,
               unloadSeen,
               ls_visitor_id, ls_cookie_consent, ss_session_id, ss_session_start, q_nextId,
               enqueued, accepted, q_threw>>

----------------------------------------------------------------------------
(* Bounds *)
MaxTicks == 3
MaxIds == 5
MaxPageViews == 3

(* session.ts:31 *)
SESSION_TIMEOUT_MS == 30 * 60 * 1000

StorageModes == {"ok", "nowrite", "down"}

----------------------------------------------------------------------------
(* Identity store, src/src/lib/session.ts.  An operation takes the store   *)
(* st = [visitor, session, next] and yields [st |-> store after, ret |-> returned value]. *)

Store == [visitor |-> sr_visitor, session |-> sr_session, next |-> nextId]

generateUUID(st) == [st |-> [st EXCEPT !.next = @ + 1], ret |-> st.next]

GetVisitorId_Regenerating(st) ==
  LET g == generateUUID(st) IN
  IF storageMode = "ok"
    THEN [st |-> [g.st EXCEPT !.visitor = g.ret], ret |-> g.ret]
    ELSE g

getVisitorId(st) ==
  IF storageMode = "down"
    THEN generateUUID(st)                       \* getItem throws: catch branch
    ELSE IF st.visitor # 0
      THEN [st |-> st, ret |-> st.visitor]
      ELSE LET g == generateUUID(st) IN
           IF storageMode = "ok"
             THEN [st |-> [g.st EXCEPT !.visitor = g.ret], ret |-> g.ret]
             ELSE generateUUID(g.st)            \* setItem throws: catch branch

getStoredSession(st) ==
  IF storageMode = "down" THEN <<>> ELSE st.session

saveSession(st, session) ==
  IF storageMode = "ok" THEN [st EXCEPT !.session = <<session>>] ELSE st

IsSessionExpired_Inclusive(session) ==
  now - session.last_activity_at >= SESSION_TIMEOUT_MS

IsSessionExpired_Seconds(session) ==
  (now - session.last_activity_at) \div 1000 > SESSION_TIMEOUT_MS

isSessionExpired(session) ==
  now - session.last_activity_at > SESSION_TIMEOUT_MS

CreateNewSession_CountsFirstView(st) ==
  LET v == getVisitorId(st)
      g == generateUUID(v.st)
      session == [session_id |-> g.ret, visitor_id |-> v.ret, created_at |-> now,
                  last_activity_at |-> now, page_views |-> 1]
  IN [st |-> saveSession(g.st, session), ret |-> session]

createNewSession(st) ==
  LET v == getVisitorId(st)
      g == generateUUID(v.st)
      session == [session_id |-> g.ret, visitor_id |-> v.ret, created_at |-> now,
                  last_activity_at |-> now, page_views |-> 0]
  IN [st |-> saveSession(g.st, session), ret |-> session]

UpdateSessionActivity_NoCount(st, session) ==
  LET s2 == [session EXCEPT !.last_activity_at = now]
  IN [st |-> saveSession(st, s2), ret |-> s2]

updateSessionActivity(st, session) ==
  LET s2 == [session EXCEPT !.last_activity_at = now, !.page_views = @ + 1]
  IN [st |-> saveSession(st, s2), ret |-> s2]

getSession(st) ==
  LET session == getStoredSession(st) IN
  IF session = <<>> THEN createNewSession(st)
  ELSE IF isSessionExpired(session[1]) THEN createNewSession(st)
  ELSE updateSessionActivity(st, session[1])

getSessionId(st) ==
  LET r == getSession(st) IN [st |-> r.st, ret |-> r.ret.session_id]

isNewVisitor(st) ==
  LET session == getStoredSession(st) IN
  IF session = <<>> THEN TRUE
  ELSE now - session[1].created_at < 10000 /\ session[1].page_views <= 1

clearVisitorId(st) ==
  IF storageMode = "down" THEN st ELSE [st EXCEPT !.visitor = 0]

clearSession(st) ==
  IF storageMode = "down" THEN st ELSE [st EXCEPT !.session = <<>>]

initSession(st) == getSession(st).st

(* the store a call leaves is within the bounds of the model *)
Fits(st) ==
  /\ st.next <= MaxIds + 1
  /\ st.session # <<>> => st.session[1].page_views <= MaxPageViews

BranchOf(st) ==
  LET session == getStoredSession(st) IN
  IF session = <<>> THEN "created"
  ELSE IF isSessionExpired(session[1]) THEN "expired" ELSE "updated"

SetStore(st) ==
  /\ sr_visitor' = st.visitor
  /\ sr_session' = st.session
  /\ nextId' = st.next

----------------------------------------------------------------------------
(* Calls made by a page script on the identity store *)

GetSessionIdCall ==
  /\ LET r == getSessionId(Store) IN
       /\ Fits(r.st)
       /\ SetStore(r.st)
       /\ retSession' = r.ret
  /\ lastSessionCallAt' = now
  /\ prevSessionCallAt' = lastSessionCallAt
  /\ sessionBranch' = BranchOf(Store)
  /\ UNCHANGED <<storageMode, retVisitor, retNewVisitor, clockVars, trackerVars, queueVars, legacyVars>>

GetSessionCall ==
  /\ Fits(getSession(Store).st)
  /\ SetStore(getSession(Store).st)
  /\ UNCHANGED <<storageMode, retSession, retVisitor, lastSessionCallAt, prevSessionCallAt, sessionBranch, retNewVisitor, clockVars, trackerVars, queueVars, legacyVars>>

GetVisitorIdCall ==
  /\ LET r == getVisitorId(Store) IN
       /\ Fits(r.st)
       /\ SetStore(r.st)
       /\ retVisitor' = r.ret
  /\ UNCHANGED <<storageMode, retSession, lastSessionCallAt, prevSessionCallAt, sessionBranch, retNewVisitor, clockVars, trackerVars, queueVars, legacyVars>>

ClearSessionCall ==
  /\ SetStore(clearSession(Store))
  /\ lastSessionCallAt' = 0
  /\ UNCHANGED <<storageMode, retSession, retVisitor, prevSessionCallAt, sessionBranch, retNewVisitor, clockVars, trackerVars, queueVars, legacyVars>>

ClearVisitorIdCall ==
  /\ SetStore(clearVisitorId(Store))
  /\ UNCHANGED <<storageMode, retSession, retVisitor, lastSessionCallAt, prevSessionCallAt, sessionBranch, retNewVisitor, clockVars, trackerVars, queueVars, legacyVars>>

Tick(d, max) ==
  /\ ticks < max
  /\ now' = now + d
  /\ ticks' = ticks + 1
  /\ UNCHANGED <<idVars, trackerVars, queueVars, legacyVars>>

SessionTicks == {1, SESSION_TIMEOUT_MS}

(* A page load finds the storage empty or holding the records of an earlier visit. *)
EarlierSession ==
  [session_id |-> 2, visitor_id |-> 1, created_at |-> 1, last_activity_at |-> 1,
   page_views |-> 1]

InitStore ==
  /\ now = 1
  /\ ticks = 0
  /\ storageMode \in StorageModes
  /\ \/ sr_visitor = 0 /\ sr_session = <<>>
     \/ sr_visitor = 1 /\ sr_session = <<>>
     \/ sr_visitor = 1 /\ sr_session = <<EarlierSession>>
  /\ nextId = 3
  /\ retSession = 0
  /\ retVisitor = 0
  /\ lastSessionCallAt = 0
  /\ prevSessionCallAt = 0
  /\ sessionBranch = "none"
  /\ retNewVisitor = FALSE

(* the legacy tracker's script is not on the page *)
NoLegacy ==
  /\ lg_storage = "ok"
  /\ lg_trackingEnabled = FALSE
  /\ lg_session = 0
  /\ lg_expiry = 0
  /\ lg_nextId = 1
  /\ lg_sent = <<>>
  /\ lg_ret = 0
  /\ lg_overflow = FALSE

(* the tracker before its constructor ran: the identity store is used on its own *)
NoTracker ==
  /\ trackingEnabled = TRUE
  /\ consentGiven = FALSE
  /\ isInitialized = FALSE
  /\ pageLoadTime = 0
  /\ sessionStartTime = 0
  /\ propertyViewStartTime = 0
  /\ blogViewStartTime = 0
  /\ maxScrollDepth = 0
  /\ listeners = <<>>
  /\ hasBeaconApi = TRUE
  /\ sent = <<>>
  /\ revokedSinceGrant = FALSE
  /\ scrollReported = <<>>
  /\ scrollPercentSeen = 0
  /\ favServer = FALSE
  /\ favCalls = <<>>
  /\ favLastPost = 0
  /\ evGenerated = 0
  /\ evInFlight = {}
  /\ evDelivered = <<>>

(* the queued tracker's singleton as constructed (brand.ts:265-272), storage empty *)
NoQueueTracker ==
  /\ config = <<>>
  /\ q_isInitialized = FALSE
  /\ sessionId = 0
  /\ visitorId = 0
  /\ q_sessionStartTime = 0
  /\ pageViewCount = 0
  /\ eventQueue = <<>>
  /\ isProcessingQueue = FALSE
  /\ pending = <<>>
  /\ createPending = 0
  /\ unloadHandlers = 0
  /\ sessionUpdates = <<>>
  /\ unloadSeen = FALSE
  /\ ls_visitor_id = 0
  /\ ls_cookie_consent = FALSE
  /\ ss_session_id = 0
  /\ ss_session_start = 0
  /\ q_nextId = 1
  /\ enqueued = <<>>
  /\ accepted = <<>>
  /\ q_threw = FALSE

InitSession == InitStore /\ NoTracker /\ NoQueueTracker /\ NoLegacy

NextSession ==
  \/ GetSessionIdCall
  \/ GetSessionCall
  \/ GetVisitorIdCall
  \/ ClearSessionCall
  \/ ClearVisitorIdCall
  \/ \E d \in SessionTicks : Tick(d, MaxTicks)

vars == <<clockVars, idVars, trackerVars, queueVars, legacyVars>>

SpecSession == InitSession /\ [][NextSession]_vars

----------------------------------------------------------------------------
(* Consent-aware tracker, src/unnamed/part_009.  A method takes the tracker *)
(* t (its fields, the identity store st it reaches, the requests sent) and  *)
(* yields the tracker after the call.                                       *)

MaxPageTicks == 1
MaxDwellTicks == 2
MaxListeners == 2
MaxReported == 5
MaxCalls == 2

Tracker ==
  [st |-> Store,
   trackingEnabled |-> trackingEnabled,
   consentGiven |-> consentGiven,
   isInitialized |-> isInitialized,
   pageLoadTime |-> pageLoadTime,
   sessionStartTime |-> sessionStartTime,
   propertyViewStartTime |-> propertyViewStartTime,
   blogViewStartTime |-> blogViewStartTime,
   maxScrollDepth |-> maxScrollDepth,
   listeners |-> listeners,
   sent |-> <<>>]

(* clearAllTrackingData of the tracker's session module: both records leave storage *)
clearAllTrackingData(st) == clearSession(clearVisitorId(st))

canTrack(t) == t.trackingEnabled /\ t.consentGiven

Request(eventType, via, dur) == [event_type |-> eventType, via |-> via, dur |-> dur]

sendEvent(t, eventType, dur) ==
  [t EXCEPT !.sent = Append(@, Request(eventType, "fetch", dur))]

trackEvent(t, eventType) ==
  IF ~canTrack(t) THEN t
  ELSE LET s == getSessionId(t.st)
           v == getVisitorId(s.st)
       IN sendEvent([t EXCEPT !.st = v.st], eventType, FALSE)

SendBeacon_Both(t, eventType, dur) ==
  LET s == getSessionId(t.st)
      v == getVisitorId(s.st)
      t2 == [t EXCEPT !.st = v.st]
  IN IF hasBeaconApi
       THEN sendEvent([t2 EXCEPT !.sent = Append(@, Request(eventType, "beacon", dur))],
                      eventType, dur)
       ELSE sendEvent(t2, eventType, dur)

sendBeacon(t, eventType, dur) ==
  LET s == getSessionId(t.st)
      v == getVisitorId(s.st)
      t2 == [t EXCEPT !.st = v.st]
  IN IF hasBeaconApi
       THEN [t2 EXCEPT !.sent = Append(@, Request(eventType, "beacon", dur))]
       ELSE sendEvent(t2, eventType, dur)

setupAutomaticTracking(t) == [t EXCEPT !.listeners = Append(@, "exit")]

init(t) ==
  IF ~t.consentGiven THEN t
  ELSE IF t.isInitialized THEN t
  ELSE setupAutomaticTracking(
         [t EXCEPT !.pageLoadTime = now, !.sessionStartTime = now, !.isInitialized = TRUE])

trackPageView(t) ==
  IF ~canTrack(t) THEN t ELSE trackEvent(t, "page_view")

(* Math.floor((Date.now() - start) / 1000) < threshold *)
BelowDwell_Inclusive(start, threshold) == (now - start) \div 1000 <= threshold

BelowDwell(start, threshold) == (now - start) \div 1000 < threshold

trackPageExit(t) ==
  IF ~t.trackingEnabled \/ t.pageLoadTime = 0 THEN t
  ELSE IF BelowDwell(t.pageLoadTime, 3) THEN t
  ELSE sendBeacon(t, "page_exit", TRUE)

trackPropertyView(t) ==
  IF ~canTrack(t) THEN t
  ELSE trackEvent([t EXCEPT !.propertyViewStartTime = now], "property_view")

trackPropertyDuration(t) ==
  IF ~t.trackingEnabled \/ t.propertyViewStartTime = 0 THEN t
  ELSE IF BelowDwell(t.propertyViewStartTime, 3) THEN t
  ELSE sendBeacon(t, "property_view", TRUE)

setupPropertyDurationTracking(t) ==
  [t EXCEPT !.propertyViewStartTime = now, !.listeners = Append(@, "property")]

trackBlogView(t) ==
  IF ~canTrack(t) THEN t
  ELSE trackEvent([t EXCEPT !.blogViewStartTime = now, !.maxScrollDepth = 0], "blog_view")

trackBlogDuration(t) ==
  IF ~t.trackingEnabled \/ t.blogViewStartTime = 0 THEN t
  ELSE IF BelowDwell(t.blogViewStartTime, 5) THEN t
  ELSE sendBeacon(t, "blog_read_time", TRUE)

setupBlogDurationTracking(t) ==
  [t EXCEPT !.blogViewStartTime = now, !.maxScrollDepth = 0,
            !.listeners = Append(@, "blog")]

(* Math.round((scrollTop / docHeight) * 100), 0 for a document that cannot scroll *)
scrollPercent(scrollTop, docHeight) ==
  IF docHeight > 0 THEN (2 * scrollTop * 100 + docHeight) \div (2 * docHeight) ELSE 0

milestones == <<25, 50, 75, 100>>

CurrentMilestone_AnyReached(percent, maxDepth) ==
  LET found == {i \in 1..Len(milestones) : percent >= milestones[i]}
  IN IF found = {} THEN 0
     ELSE milestones[CHOOSE i \in found : \A j \in found : i <= j]

(* milestones.find(m => scrollPercent >= m && maxScrollDepth < m): the first match *)
(* in array order, 0 for undefined                                                 *)
currentMilestone(percent, maxDepth) ==
  LET found == {i \in 1..Len(milestones) :
                  percent >= milestones[i] /\ maxDepth < milestones[i]}
  IN IF found = {} THEN 0
     ELSE milestones[CHOOSE i \in found : \A j \in found : i <= j]

ScrollRequest(depth) ==
  [event_type |-> "blog_scroll_depth", via |-> "fetch", dur |-> FALSE, scroll_depth |-> depth]

(* the scroll listener installed by setupScrollDepthTracking *)
trackScroll(t, percent) ==
  LET milestone == currentMilestone(percent, t.maxScrollDepth) IN
  IF milestone # 0 /\ percent > t.maxScrollDepth
    THEN LET t1 == [t EXCEPT !.maxScrollDepth = percent] IN
         IF ~canTrack(t1) THEN t1
         ELSE LET s == getSessionId(t1.st)
                  v == getVisitorId(s.st)
              IN [t1 EXCEPT !.st = v.st, !.sent = Append(@, ScrollRequest(milestone))]
  ELSE IF percent > t.maxScrollDepth
    THEN [t EXCEPT !.maxScrollDepth = percent]
  ELSE t

(* a scroll event runs every installed scroll listener, one per setup call *)
RECURSIVE dispatchScroll(_, _, _)
dispatchScroll(t, percent, n) ==
  IF n = 0 THEN t ELSE dispatchScroll(trackScroll(t, percent), percent, n - 1)

trackSearch(t) == sendBeacon(t, "search", FALSE)

(* one installed teardown handler runs *)
runListener(t, kind) ==
  CASE kind = "exit" -> trackPageExit(t)
    [] kind = "property" -> trackPropertyDuration(t)
    [] kind = "blog" -> trackBlogDuration(t)

(* a teardown signal (beforeunload, pagehide, visibilitychange to hidden) runs the *)
(* handlers registered for it in registration order; every setup registers its     *)
(* handler for all three signals                                                   *)
RECURSIVE dispatch(_, _, _)
dispatch(t, ls, i) ==
  IF i > Len(ls) THEN t ELSE dispatch(runListener(t, ls[i]), ls, i + 1)

(* cookieConsentUpdated listener *)
onCookieConsentUpdated(t, analytics) ==
  LET previousConsent == t.consentGiven
      t1 == [t EXCEPT !.consentGiven = analytics]
  IN IF analytics /\ ~previousConsent
       THEN trackPageView(init([t1 EXCEPT !.st = initSession(t1.st)]))
     ELSE IF ~analytics /\ previousConsent
       THEN [t1 EXCEPT !.st = clearAllTrackingData(t1.st), !.isInitialized = FALSE]
     ELSE t1

setConsent(t, hasConsent) ==
  LET previousConsent == t.consentGiven
      t1 == [t EXCEPT !.consentGiven = hasConsent]
  IN IF hasConsent /\ ~previousConsent
       THEN init([t1 EXCEPT !.st = initSession(t1.st)])
     ELSE IF ~hasConsent
       THEN [t1 EXCEPT !.st = clearAllTrackingData(t1.st), !.isInitialized = FALSE]
     ELSE t1

(* toggleFavourite and getFavourites up to their first await: the gate, the ids,   *)
(* and the GET get-favourites request                                               *)
getFavourites(t) ==
  IF ~canTrack(t) THEN t
  ELSE LET v == getVisitorId(t.st)
       IN [t EXCEPT !.st = v.st,
                    !.sent = Append(@, Request("get_favourites", "fetch", FALSE))]

toggleFavourite(t) ==
  IF ~canTrack(t) THEN t
  ELSE LET v == getVisitorId(t.st)
           s == getSessionId(v.st)
       IN getFavourites([t EXCEPT !.st = s.st])

(* isFavourited(): getFavourites() yields [] when its request fails, and then no *)
(* entry matches the property                                                     *)
isFavourited(getOk, onServer) == getOk /\ onServer

toggleAction(isFav) == IF isFav THEN "unfavourite" ELSE "favourite"

(* the toggle-favourite endpoint carries out the action named in the request *)
serverToggle(action) == action = "favourite"

ToggleReturn_Local(outcome, isFav, result) ==
  IF outcome = "network" THEN FALSE ELSE isFav

(* what toggleFavourite returns once its toggle request is over: is_favourited of *)
(* a 2xx answer, the state read before for another status, false from the catch   *)
toggleReturn(outcome, isFav, result) ==
  CASE outcome = "ok" -> result
    [] outcome = "non2xx" -> isFav
    [] outcome = "network" -> FALSE

(* the analytics event after a 2xx answer *)
trackToggled(t, action) ==
  trackEvent(t, IF action = "favourite" THEN "property_favourited"
                ELSE "property_unfavourited")

TrackerFits(t) ==
  /\ Fits(t.st)
  /\ Len(t.listeners) <= MaxListeners

SetTracker(t) ==
  /\ TrackerFits(t)
  /\ SetStore(t.st)
  /\ trackingEnabled' = t.trackingEnabled
  /\ consentGiven' = t.consentGiven
  /\ isInitialized' = t.isInitialized
  /\ pageLoadTime' = t.pageLoadTime
  /\ sessionStartTime' = t.sessionStartTime
  /\ propertyViewStartTime' = t.propertyViewStartTime
  /\ blogViewStartTime' = t.blogViewStartTime
  /\ maxScrollDepth' = t.maxScrollDepth
  /\ listeners' = t.listeners
  /\ sent' = t.sent

(* what a tracker method leaves alone: the clock, the environment, the call records *)
TrackerFrame ==
  UNCHANGED <<clockVars, storageMode, hasBeaconApi, retSession, retVisitor, retNewVisitor,
              lastSessionCallAt, prevSessionCallAt, sessionBranch, queueVars, legacyVars>>

ScrollFrame == UNCHANGED <<scrollReported, scrollPercentSeen>>

FavFrame == UNCHANGED <<favServer, favCalls, favLastPost>>

NetFrame == UNCHANGED <<evGenerated, evInFlight, evDelivered>>

MethodFrame == TrackerFrame /\ UNCHANGED revokedSinceGrant /\ ScrollFrame /\ FavFrame /\ NetFrame

CookieConsentUpdated(analytics) ==
  /\ SetTracker(onCookieConsentUpdated(Tracker, analytics))
  /\ revokedSinceGrant' = IF analytics THEN FALSE
                          ELSE IF consentGiven THEN TRUE ELSE revokedSinceGrant
  /\ TrackerFrame
  /\ ScrollFrame
  /\ FavFrame
  /\ NetFrame

SetConsent(hasConsent) ==
  /\ SetTracker(setConsent(Tracker, hasConsent))
  /\ revokedSinceGrant' = IF hasConsent THEN FALSE
                          ELSE IF consentGiven THEN TRUE ELSE revokedSinceGrant
  /\ TrackerFrame
  /\ ScrollFrame
  /\ FavFrame
  /\ NetFrame

InitCall ==
  /\ SetTracker(init(Tracker))
  /\ MethodFrame

TrackPageViewCall ==
  /\ SetTracker(trackPageView(Tracker))
  /\ MethodFrame

TrackEventCall ==
  /\ SetTracker(trackEvent(Tracker, "cta_click"))
  /\ MethodFrame

TrackPropertyViewCall ==
  /\ SetTracker(trackPropertyView(Tracker))
  /\ MethodFrame

TrackPropertyDurationCall ==
  /\ SetTracker(trackPropertyDuration(Tracker))
  /\ MethodFrame

SetupPropertyDurationTrackingCall ==
  /\ SetTracker(setupPropertyDurationTracking(Tracker))
  /\ MethodFrame

TrackBlogViewCall ==
  /\ SetTracker(trackBlogView(Tracker))
  /\ MethodFrame

TrackBlogDurationCall ==
  /\ SetTracker(trackBlogDuration(Tracker))
  /\ MethodFrame

SetupBlogDurationTrackingCall ==
  /\ SetTracker(setupBlogDurationTracking(Tracker))
  /\ MethodFrame

TrackSearchCall ==
  /\ SetTracker(trackSearch(Tracker))
  /\ MethodFrame

ToggleFavouriteCall ==
  /\ SetTracker(toggleFavourite(Tracker))
  /\ MethodFrame

GetFavouritesCall ==
  /\ SetTracker(getFavourites(Tracker))
  /\ MethodFrame

SetTrackingEnabledCall(enabled) ==
  /\ SetTracker([Tracker EXCEPT !.trackingEnabled = enabled])
  /\ MethodFrame

TeardownSignals == {"beforeunload", "pagehide", "visibilitychange"}

TeardownSignal(sig) ==
  /\ SetTracker(dispatch(Tracker, listeners, 1))
  /\ MethodFrame

ScrollDepths(reqs) ==
  LET idx == {i \in 1..Len(reqs) : reqs[i].event_type = "blog_scroll_depth"}
  IN [i \in 1..Cardinality(idx) |->
        reqs[CHOOSE k \in idx : Cardinality({j \in idx : j <= k}) = i].scroll_depth]

ScrollListeners == Cardinality({i \in 1..Len(listeners) : listeners[i] = "blog"})

(* the window's scroll event at offset scrollTop of a document docHeight high *)
ScrollEvent(scrollTop, docHeight) ==
  /\ ScrollListeners > 0
  /\ scrollPercentSeen' = scrollPercent(scrollTop, docHeight)
  /\ LET t == dispatchScroll(Tracker, scrollPercent(scrollTop, docHeight), ScrollListeners) IN
       /\ SetTracker(t)
       /\ scrollReported' = scrollReported \o ScrollDepths(t.sent)
       /\ Len(scrollReported') <= MaxReported
  /\ TrackerFrame
  /\ FavFrame
  /\ NetFrame
  /\ UNCHANGED revokedSinceGrant

FavOutcomes == {"ok", "non2xx", "network"}

FavCallFrame == TrackerFrame /\ ScrollFrame /\ NetFrame /\ UNCHANGED revokedSinceGrant

(* toggleFavourite(propertyId) to its first await; without consent it returns false *)
ToggleFavouriteBegin ==
  /\ Len(favCalls) < MaxCalls
  /\ SetTracker(toggleFavourite(Tracker))
  /\ favCalls' = Append(favCalls,
        IF canTrack(Tracker)
          THEN [phase |-> "get", read |-> FALSE, action |-> "none", outcome |-> "none",
                result |-> FALSE, ret |-> FALSE]
          ELSE [phase |-> "done", read |-> FALSE, action |-> "none", outcome |-> "gated",
                result |-> FALSE, ret |-> FALSE])
  /\ UNCHANGED <<favServer, favLastPost>>
  /\ FavCallFrame

(* the get-favourites request of call c is over: the call computes its action and *)
(* issues the toggle request                                                       *)
GetFavouritesAnswered(c, getOk) ==
  /\ c \in 1..Len(favCalls)
  /\ favCalls[c].phase = "get"
  /\ LET isFav == isFavourited(getOk, favServer) IN
       favCalls' = [favCalls EXCEPT ![c].phase = "post", ![c].read = isFav,
                                    ![c].action = toggleAction(isFav)]
  /\ SetTracker([Tracker EXCEPT !.sent = <<Request("toggle_favourite", "fetch", FALSE)>>])
  /\ UNCHANGED <<favServer, favLastPost>>
  /\ FavCallFrame

(* the toggle request of call c meets its fate: a 2xx answer after the collector   *)
(* applied the action, another status with nothing applied, or a network error     *)
(* before or after the collector applied it                                        *)
ToggleRequestHandled(c, outcome, applied) ==
  /\ c \in 1..Len(favCalls)
  /\ favCalls[c].phase = "post"
  /\ outcome = "ok" => applied
  /\ outcome = "non2xx" => ~applied
  /\ favServer' = IF applied THEN serverToggle(favCalls[c].action) ELSE favServer
  /\ favLastPost' = IF applied THEN c ELSE favLastPost
  /\ favCalls' = [favCalls EXCEPT ![c].phase = "answered", ![c].outcome = outcome,
                                  ![c].result = favServer']
  /\ SetTracker(Tracker)
  /\ FavCallFrame

(* the awaiting call c resumes with the answer (or the error) and returns *)
ToggleFavouriteReturns(c) ==
  /\ c \in 1..Len(favCalls)
  /\ favCalls[c].phase = "answered"
  /\ favCalls' = [favCalls EXCEPT ![c].phase = "done",
        ![c].ret = toggleReturn(favCalls[c].outcome, favCalls[c].read, favCalls[c].result)]
  /\ SetTracker(IF favCalls[c].outcome = "ok"
                  THEN trackToggled(Tracker, favCalls[c].action)
                  ELSE Tracker)
  /\ UNCHANGED <<favServer, favLastPost>>
  /\ FavCallFrame

(* tracker.getSessionId() and tracker.getVisitorId() hand the call to the store *)
TrackerGetSessionId ==
  /\ Fits(getSessionId(Store).st)
  /\ SetStore(getSessionId(Store).st)
  /\ UNCHANGED <<trackerVars>>
  /\ TrackerFrame

TrackerGetVisitorId ==
  /\ Fits(getVisitorId(Store).st)
  /\ SetStore(getVisitorId(Store).st)
  /\ UNCHANGED <<trackerVars>>
  /\ TrackerFrame

DwellTicks == {100, 2900}
PageTicks == {5000}

(* the state the constructor leaves *)
Init ==
  /\ InitStore
  /\ storageMode = "ok"
  /\ trackingEnabled = TRUE
  /\ consentGiven \in BOOLEAN
  /\ isInitialized = FALSE
  /\ pageLoadTime = 0
  /\ sessionStartTime = 0
  /\ propertyViewStartTime = 0
  /\ blogViewStartTime = 0
  /\ maxScrollDepth = 0
  /\ listeners = <<>>
  /\ hasBeaconApi \in BOOLEAN
  /\ sent = <<>>
  /\ revokedSinceGrant = FALSE
  /\ scrollReported = <<>>
  /\ scrollPercentSeen = 0
  /\ favServer = FALSE
  /\ favCalls = <<>>
  /\ favLastPost = 0
  /\ evGenerated = 0
  /\ evInFlight = {}
  /\ evDelivered = <<>>
  /\ NoQueueTracker
  /\ NoLegacy

Next ==
  \/ \E a \in BOOLEAN : CookieConsentUpdated(a)
  \/ \E c \in BOOLEAN : SetConsent(c)
  \/ InitCall
  \/ TrackPageViewCall
  \/ TrackEventCall
  \/ TrackPropertyViewCall
  \/ TrackPropertyDurationCall
  \/ SetupPropertyDurationTrackingCall
  \/ TrackBlogViewCall
  \/ TrackBlogDurationCall
  \/ SetupBlogDurationTrackingCall
  \/ TrackSearchCall
  \/ ToggleFavouriteCall
  \/ GetFavouritesCall
  \/ \E e \in BOOLEAN : SetTrackingEnabledCall(e)
  \/ \E sig \in TeardownSignals : TeardownSignal(sig)
  \/ TrackerGetSessionId
  \/ TrackerGetVisitorId
  \/ \E d \in PageTicks : Tick(d, MaxPageTicks)

Spec == Init /\ [][Next]_vars

(* A blog page: the article view and the duration tracking are set up when the page *)
(* loads, before the reader scrolls; then the reader scrolls down and up.           *)
ScrollTops == {300, 600, 800, 900, 1000}
DocHeights == {0, 1000}

BlogPageLoad ==
  /\ maxScrollDepth = 0
  /\ scrollPercentSeen = 0
  /\ \/ TrackBlogViewCall
     \/ SetupBlogDurationTrackingCall

NextScroll ==
  \/ BlogPageLoad
  \/ \E scrollTop \in ScrollTops : \E docHeight \in DocHeights : ScrollEvent(scrollTop, docHeight)
  \/ \E a \in BOOLEAN : CookieConsentUpdated(a)
  \/ \E e \in BOOLEAN : SetTrackingEnabledCall(e)

InitScroll == Init /\ hasBeaconApi

(* A property page: the visitor may have saved the property on an earlier visit *)
InitFav ==
  /\ InitStore
  /\ storageMode = "ok"
  /\ trackingEnabled = TRUE
  /\ consentGiven \in BOOLEAN
  /\ isInitialized = FALSE
  /\ pageLoadTime = 0
  /\ sessionStartTime = 0
  /\ propertyViewStartTime = 0
  /\ blogViewStartTime = 0
  /\ maxScrollDepth = 0
  /\ listeners = <<>>
  /\ hasBeaconApi = TRUE
  /\ sent = <<>>
  /\ revokedSinceGrant = FALSE
  /\ scrollReported = <<>>
  /\ scrollPercentSeen = 0
  /\ favServer \in BOOLEAN
  /\ favCalls = <<>>
  /\ favLastPost = 0
  /\ evGenerated = 0
  /\ evInFlight = {}
  /\ evDelivered = <<>>
  /\ NoQueueTracker
  /\ NoLegacy

NextFav ==
  \/ ToggleFavouriteBegin
  \/ \E c \in 1..Len(favCalls) : \E getOk \in BOOLEAN : GetFavouritesAnswered(c, getOk)
  \/ \E c \in 1..Len(favCalls) : \E outcome \in FavOutcomes : \E applied \in BOOLEAN :
        ToggleRequestHandled(c, outcome, applied)
  \/ \E c \in 1..Len(favCalls) : ToggleFavouriteReturns(c)
  \/ \E a \in BOOLEAN : CookieConsentUpdated(a)

SpecFav == InitFav /\ [][NextFav]_vars

SpecScroll == InitScroll /\ [][NextScroll]_vars

(* The dwell-time handlers on a finer clock, consent being as the constructor found it *)
NextDwell ==
  \/ InitCall
  \/ TrackPropertyViewCall
  \/ TrackPropertyDurationCall
  \/ SetupPropertyDurationTrackingCall
  \/ TrackBlogViewCall
  \/ TrackBlogDurationCall
  \/ SetupBlogDurationTrackingCall
  \/ \E e \in BOOLEAN : SetTrackingEnabledCall(e)
  \/ \E sig \in TeardownSignals : TeardownSignal(sig)
  \/ \E d \in DwellTicks : Tick(d, MaxDwellTicks)

(* a returning visitor's page load *)
InitDwell == Init /\ sr_session # <<>>

SpecDwell == InitDwell /\ [][NextDwell]_vars

----------------------------------------------------------------------------
(* Queued tracker, src/src/lib/brand.ts (class StratosTracker, l. 264-638). *)
(* A method takes the tracker q and yields the tracker after the call, up   *)
(* to the method's first await; what follows an await is the action of the  *)
(* request's answer.                                                        *)

MaxEvents == 3
MaxInits == 2

(* brand.ts:279, minutes *)
SESSION_TIMEOUT == 30

QTracker ==
  [config |-> config,
   isInitialized |-> q_isInitialized,
   sessionId |-> sessionId,
   visitorId |-> visitorId,
   sessionStartTime |-> q_sessionStartTime,
   pageViewCount |-> pageViewCount,
   eventQueue |-> eventQueue,
   isProcessingQueue |-> isProcessingQueue,
   pending |-> pending,
   createPending |-> createPending,
   unloadHandlers |-> unloadHandlers,
   updates |-> <<>>,
   unloaded |-> FALSE,
   ls_visitor_id |-> ls_visitor_id,
   ls_cookie_consent |-> ls_cookie_consent,
   ss_session_id |-> ss_session_id,
   ss_session_start |-> ss_session_start,
   nextId |-> q_nextId,
   enqueued |-> enqueued,
   accepted |-> accepted,
   threw |-> FALSE]

(* an exception leaves the method: nothing after it runs *)
throw(q) == [q EXCEPT !.threw = TRUE]

getCookieConsent(q) == q.ls_cookie_consent

(* localStorage/sessionStorage are used bare: getItem throws when the storage is *)
(* down, setItem also when it cannot be written                                   *)
getItemThrows == storageMode = "down"
setItemThrows == storageMode # "ok"

getOrCreateVisitorId(q) ==
  IF getItemThrows THEN throw(q)
  ELSE IF q.ls_visitor_id # 0 THEN q
  ELSE IF setItemThrows THEN throw([q EXCEPT !.nextId = @ + 1])
  ELSE [q EXCEPT !.ls_visitor_id = q.nextId, !.nextId = @ + 1]

(* elapsed minutes since the stored start are below the timeout *)
isSessionValid(q) ==
  IF q.ss_session_start = 0 THEN FALSE
  ELSE now - q.ss_session_start < SESSION_TIMEOUT * 60 * 1000

updateLastActivity(q) ==
  IF setItemThrows THEN throw(q) ELSE [q EXCEPT !.ss_session_start = now]

(* startSession() to its await: the create-session request is on its way *)
startSession(q) == [q EXCEPT !.createPending = @ + 1]

DrainRefused_EmptyOnly(q) == Len(q.eventQueue) = 0

(* processEventQueue's entry test: a drain is running, or nothing is queued *)
DrainRefused(q) == q.isProcessingQueue \/ Len(q.eventQueue) = 0

(* the drain loop takes the head of the queue and awaits its request *)
processEventQueue(q) ==
  IF DrainRefused(q) THEN q
  ELSE [q EXCEPT !.isProcessingQueue = TRUE,
                 !.pending = Append(@, Head(q.eventQueue)),
                 !.eventQueue = Tail(@)]

push(q, eventType) ==
  LET event == [id |-> Len(q.enqueued) + 1, session_id |-> q.sessionId,
                event_type |-> eventType]
  IN [q EXCEPT !.eventQueue = Append(@, event), !.enqueued = Append(@, event.id)]

track(q, eventType) ==
  IF ~q.isInitialized \/ q.sessionId = 0 THEN q
  ELSE processEventQueue(push(q, eventType))

q_trackPageView(q) == track([q EXCEPT !.pageViewCount = @ + 1], "page_view")

q_trackPropertyView(q) ==
  IF q.sessionId = 0 THEN q
  ELSE processEventQueue(push(q, "property_view"))

(* endSession() to its await: the update-session request is on its way *)
endSession(q) ==
  IF q.sessionId = 0 \/ q.sessionStartTime = 0 THEN q
  ELSE [q EXCEPT !.updates = Append(@,
          [session_id |-> q.sessionId,
           duration_seconds |-> (now - q.sessionStartTime) \div 1000,
           page_views_count |-> q.pageViewCount])]

(* beforeunload: each installed listener calls endSession() *)
RECURSIVE unload(_, _)
unload(q, n) ==
  IF n = 0 THEN [q EXCEPT !.unloaded = TRUE] ELSE unload(endSession(q), n - 1)

setupUnloadHandler(q) == [q EXCEPT !.unloadHandlers = @ + 1]

(* init() after the visitor id is settled: the stored session is resumed or a *)
(* new one is requested, then the page view and the listeners                  *)
initSessionPart(q) ==
  LET q3 == [q EXCEPT !.visitorId = q.ls_visitor_id, !.sessionId = q.ss_session_id]
      q4 == IF q3.sessionId # 0 /\ isSessionValid(q3)
              THEN updateLastActivity(q3)
              ELSE startSession(q3)
  IN IF q4.threw THEN q4 ELSE setupUnloadHandler(q_trackPageView(q4))

q_init(q, cfg) ==
  LET q1 == [q EXCEPT !.config = <<cfg>>, !.isInitialized = TRUE] IN
  IF getItemThrows THEN throw(q1)
  ELSE IF ~getCookieConsent(q1) /\ ~cfg.cookieConsent THEN q1
  ELSE LET q2 == getOrCreateVisitorId(q1) IN
       IF q2.threw THEN q2 ELSE initSessionPart(q2)

setCookieConsent(q, consent) ==
  IF setItemThrows THEN throw(q)
  ELSE LET q1 == [q EXCEPT !.ls_cookie_consent = consent] IN
       IF consent /\ ~q1.isInitialized /\ q1.config # <<>>
         THEN q_init(q1, q1.config[1])
         ELSE q1

RemoveAt(seq, i) == SubSeq(seq, 1, i - 1) \o SubSeq(seq, i + 1, Len(seq))

(* the drain loop that awaited pending[i] goes on after a fulfilled fetch: the    *)
(* response status is not looked at                                               *)
drainContinue(q, i) ==
  IF Len(q.eventQueue) > 0
    THEN [q EXCEPT !.pending[i] = Head(q.eventQueue), !.eventQueue = Tail(@)]
    ELSE [q EXCEPT !.pending = RemoveAt(@, i), !.isProcessingQueue = FALSE]

DrainFailed_FlagKept(q, i) ==
  [q EXCEPT !.eventQueue = <<q.pending[i]>> \o @,
            !.pending = RemoveAt(@, i)]

(* the catch branch: the event goes back to the front and the loop ends *)
drainFailed(q, i) ==
  [q EXCEPT !.eventQueue = <<q.pending[i]>> \o @,
            !.pending = RemoveAt(@, i),
            !.isProcessingQueue = FALSE]

QFits(q) ==
  /\ Len(q.enqueued) <= MaxEvents
  /\ q.unloadHandlers <= MaxInits
  /\ q.createPending <= MaxInits
  /\ q.pageViewCount <= MaxPageViews
  /\ q.nextId <= MaxIds + 1

SetQ(q) ==
  /\ QFits(q)
  /\ config' = q.config
  /\ q_isInitialized' = q.isInitialized
  /\ sessionId' = q.sessionId
  /\ visitorId' = q.visitorId
  /\ q_sessionStartTime' = q.sessionStartTime
  /\ pageViewCount' = q.pageViewCount
  /\ eventQueue' = q.eventQueue
  /\ isProcessingQueue' = q.isProcessingQueue
  /\ pending' = q.pending
  /\ createPending' = q.createPending
  /\ unloadHandlers' = q.unloadHandlers
  /\ sessionUpdates' = q.updates
  /\ unloadSeen' = q.unloaded
  /\ ls_visitor_id' = q.ls_visitor_id
  /\ ls_cookie_consent' = q.ls_cookie_consent
  /\ ss_session_id' = q.ss_session_id
  /\ ss_session_start' = q.ss_session_start
  /\ q_nextId' = q.nextId
  /\ enqueued' = q.enqueued
  /\ accepted' = q.accepted
  /\ q_threw' = q.threw

QFrame == UNCHANGED <<clockVars, idVars, trackerVars, legacyVars>>

QInitCall(cookieConsent) ==
  /\ SetQ(q_init(QTracker, [cookieConsent |-> cookieConsent]))
  /\ QFrame

QSetCookieConsent(consent) ==
  /\ SetQ(setCookieConsent(QTracker, consent))
  /\ QFrame

QTrack ==
  /\ SetQ(track(QTracker, "custom"))
  /\ QFrame

QTrackPageView ==
  /\ SetQ(q_trackPageView(QTracker))
  /\ QFrame

QTrackPropertyView ==
  /\ SetQ(q_trackPropertyView(QTracker))
  /\ QFrame

(* click, scroll or keydown after init() installed the activity listeners *)
QActivity ==
  /\ unloadHandlers > 0
  /\ ~setItemThrows
  /\ SetQ(updateLastActivity(QTracker))
  /\ QFrame

(* create-session answered 2xx: the collector's session id is taken and stored *)
CreateSessionOk ==
  /\ createPending > 0
  /\ SetQ([QTracker EXCEPT !.createPending = @ - 1,
                           !.sessionId = q_nextId,
                           !.sessionStartTime = now,
                           !.pageViewCount = 0,
                           !.ss_session_id = IF setItemThrows THEN @ ELSE q_nextId,
                           !.ss_session_start = IF setItemThrows THEN @ ELSE now,
                           !.nextId = @ + 1])
  /\ QFrame

(* create-session failed (non-2xx or network error): logged, nothing changes *)
CreateSessionFailed ==
  /\ createPending > 0
  /\ SetQ([QTracker EXCEPT !.createPending = @ - 1])
  /\ QFrame

(* the collector answers the track-event request pending[i]; it takes the event   *)
(* iff it answers 2xx                                                             *)
FetchResolve(i, ok) ==
  /\ i \in 1..Len(pending)
  /\ LET q == drainContinue(QTracker, i) IN
       SetQ(IF ok THEN [q EXCEPT !.accepted = Append(@, pending[i].id)] ELSE q)
  /\ QFrame

(* the track-event request pending[i] fails on the network: fetch rejects *)
FetchReject(i) ==
  /\ i \in 1..Len(pending)
  /\ SetQ(drainFailed(QTracker, i))
  /\ QFrame

MaxQueueTicks == 1

(* the stored session start ages by the timeout *)
QueueTicks == {SESSION_TIMEOUT * 60 * 1000}

(* a page load: consent and a session of this tab may be stored from before *)
QueuePageLoad ==
  /\ InitStore
  /\ NoTracker
  /\ config = <<>>
  /\ q_isInitialized = FALSE
  /\ sessionId = 0
  /\ visitorId = 0
  /\ q_sessionStartTime = 0
  /\ pageViewCount = 0
  /\ eventQueue = <<>>
  /\ isProcessingQueue = FALSE
  /\ pending = <<>>
  /\ createPending = 0
  /\ unloadHandlers = 0
  /\ sessionUpdates = <<>>
  /\ unloadSeen = FALSE
  /\ ls_cookie_consent \in BOOLEAN
  /\ \/ ls_visitor_id = 0 /\ ss_session_id = 0 /\ ss_session_start = 0
     \/ ls_visitor_id = 1 /\ ss_session_id = 0 /\ ss_session_start = 0
     \/ ls_visitor_id = 1 /\ ss_session_id = 2 /\ ss_session_start = now
  /\ q_nextId = 3
  /\ enqueued = <<>>
  /\ accepted = <<>>
  /\ q_threw = FALSE
  /\ NoLegacy

NextQueue ==
  \/ \E c \in BOOLEAN : QInitCall(c)
  \/ \E c \in BOOLEAN : QSetCookieConsent(c)
  \/ QTrack
  \/ QTrackPageView
  \/ QTrackPropertyView
  \/ QActivity
  \/ CreateSessionOk
  \/ CreateSessionFailed
  \/ \E i \in 1..Len(pending) : \E ok \in BOOLEAN : FetchResolve(i, ok)
  \/ \E i \in 1..Len(pending) : FetchReject(i)
  \/ \E d \in QueueTicks : Tick(d, MaxQueueTicks)

InitQueue == QueuePageLoad /\ storageMode = "ok" /\ sr_visitor = 0 /\ sr_session = <<>>

SpecQueue == InitQueue /\ [][NextQueue]_vars

(* Storage that fails: the page's storage works, rejects writes (quota, private *)
(* mode) or is not accessible at all, for the whole page load.                  *)
InitStorage == QueuePageLoad

NextStorage ==
  \/ GetVisitorIdCall
  \/ GetSessionIdCall
  \/ \E c \in BOOLEAN : QInitCall(c)
  \/ \E c \in BOOLEAN : QSetCookieConsent(c)
  \/ QTrack
  \/ CreateSessionOk

SpecStorage == InitStorage /\ [][NextStorage]_vars

(* the network answers every request it holds *)
FairSpecQueue ==
  /\ SpecQueue
  /\ WF_vars(\E i \in 1..Len(pending) : FetchResolve(i, TRUE))
  /\ WF_vars(CreateSessionOk)

----------------------------------------------------------------------------
(* Requests of one kind among those a call issued *)
Durations(reqs, eventType) ==
  {i \in 1..Len(reqs) : reqs[i].event_type = eventType /\ reqs[i].dur}

Handlers(kind) == {i \in 1..Len(listeners) : listeners[i] = kind}

(* the operations C1 names *)
GatedOperation ==
  \/ TrackEventCall
  \/ TrackPageViewCall
  \/ TrackPropertyViewCall
  \/ TrackSearchCall
  \/ TrackPropertyDurationCall
  \/ TrackBlogDurationCall
  \/ \E sig \in TeardownSignals : TeardownSignal(sig)
  \/ ToggleFavouriteCall
  \/ GetFavouritesCall

(* C1: without consent, or with tracking disabled, none of the tracker's          *)
(* operations and teardown handlers issues a request or writes a Session or       *)
(* VisitorIdentity record.                                                        *)
C1_NoOpWithoutConsent ==
  [][ (~canTrack(Tracker) /\ GatedOperation)
      => (sent' = <<>> /\ sr_visitor' = sr_visitor /\ sr_session' = sr_session) ]_vars

(* C2: after consent went from granted to denied and before the next grant,       *)
(* getVisitorId() and getSessionId() write nothing to storage.                    *)
C2_UnpersistedAfterRevoke ==
  [][ (revokedSinceGrant /\ (TrackerGetVisitorId \/ TrackerGetSessionId))
      => (sr_visitor' = sr_visitor /\ sr_session' = sr_session) ]_vars

(* C9: once a duration has been reported, a following teardown signal reports     *)
(* none: the duration event is sent once whatever signals fire.                   *)
C9_DurationReportedOnce ==
  [][ ( /\ \E sig \in TeardownSignals : TeardownSignal(sig)
        /\ \E r \in 1..Len(sent) : sent[r].dur )
      => (\A r \in 1..Len(sent') : ~sent'[r].dur) ]_vars

(* C10: at a teardown signal, with tracking enabled and the start time set, the   *)
(* installed page-exit and property-duration handlers send their event iff at     *)
(* least 3000 ms have elapsed, the blog handler iff at least 5000 ms; a handler   *)
(* that sends, sends one event.                                                   *)
C10_DwellSuppression ==
  [][ (\E sig \in TeardownSignals : TeardownSignal(sig))
      => ( /\ (trackingEnabled /\ pageLoadTime # 0)
                => Cardinality(Durations(sent', "page_exit"))
                     = IF now - pageLoadTime >= 3000
                         THEN Cardinality(Handlers("exit")) ELSE 0
           /\ (trackingEnabled /\ propertyViewStartTime # 0)
                => Cardinality(Durations(sent', "property_view"))
                     = IF now - propertyViewStartTime >= 3000
                         THEN Cardinality(Handlers("property")) ELSE 0
           /\ (trackingEnabled /\ blogViewStartTime # 0)
                => Cardinality(Durations(sent', "blog_read_time"))
                     = IF now - blogViewStartTime >= 5000
                         THEN Cardinality(Handlers("blog")) ELSE 0 ) ]_vars

(* a teardown signal reported a property view of 3.0 s and suppressed a blog      *)
(* view of 2.9 s                                                                  *)
C10_Witness ==
  /\ trackingEnabled
  /\ listeners = <<"property", "blog">>
  /\ now - propertyViewStartTime = 3000
  /\ now - blogViewStartTime = 2900
  /\ Len(sent) = 1
  /\ sent[1].event_type = "property_view" /\ sent[1].dur

----------------------------------------------------------------------------
(* C7: while storage works, a getSessionId() call made within SESSION_TIMEOUT of  *)
(* the previous getSessionId() call returns the id that call returned, and the    *)
(* stored page_views does not decrease.                                           *)
C7_StableWithinTimeout ==
  [][ ( /\ GetSessionIdCall
        /\ storageMode = "ok"
        /\ lastSessionCallAt # 0
        /\ now - lastSessionCallAt <= SESSION_TIMEOUT_MS )
      => ( /\ retSession' = retSession
           /\ sr_session # <<>> /\ sr_session' # <<>>
           /\ sr_session'[1].session_id = retSession
           /\ sr_session'[1].page_views >= sr_session[1].page_views ) ]_vars

(* a call exactly SESSION_TIMEOUT after the previous call kept the session *)
C7_Witness ==
  /\ storageMode = "ok"
  /\ sessionBranch = "updated"
  /\ lastSessionCallAt = now
  /\ prevSessionCallAt # 0
  /\ lastSessionCallAt - prevSessionCallAt = SESSION_TIMEOUT_MS
  /\ sr_session # <<>>
  /\ sr_session[1].session_id = retSession
  /\ sr_session[1].page_views >= 2
  /\ sr_session[1].last_activity_at - sr_session[1].created_at >= SESSION_TIMEOUT_MS

(* C8: a getSessionId() call made more than SESSION_TIMEOUT after the stored      *)
(* session's last activity returns an id different from the stored one and        *)
(* overwrites the stored record with the new session.                             *)
C8_NewSessionAfterTimeout ==
  [][ ( /\ GetSessionIdCall
        /\ storageMode = "ok"
        /\ sr_session # <<>>
        /\ now - sr_session[1].last_activity_at > SESSION_TIMEOUT_MS )
      => ( /\ retSession' # sr_session[1].session_id
           /\ sr_session' # <<>>
           /\ sr_session'[1].session_id = retSession'
           /\ sr_session'[1].created_at = now
           /\ sr_session'[1].last_activity_at = now
           /\ sr_session'[1].page_views = 0 ) ]_vars

C8_Witness ==
  /\ storageMode = "ok"
  /\ sessionBranch = "expired"
  /\ lastSessionCallAt = now
  /\ sr_session # <<>>
  /\ sr_session[1].session_id = retSession
  /\ sr_session[1].created_at = now

----------------------------------------------------------------------------
(* Delivery queue of the queued tracker *)

RECURSIVE IsPrefix(_, _)
IsPrefix(a, b) ==
  IF a = <<>> THEN TRUE
  ELSE IF b = <<>> THEN FALSE
  ELSE Head(a) = Head(b) /\ IsPrefix(Tail(a), Tail(b))

(* C3: the events the collector has accepted are, in order and each once, a *)
(* prefix of the events that were enqueued.                                  *)
C3_AcceptedPrefixOfEnqueued == IsPrefix(accepted, enqueued)

(* C4: when a track-event request fails, by a network error or by a non-2xx *)
(* answer, the failed entry is back at the front of the queue and the drain  *)
(* has stopped.                                                              *)
C4_FailureRequeuesAtFront ==
  [][\A i \in 1..Len(pending) :
       (FetchReject(i) \/ FetchResolve(i, FALSE)) =>
          /\ eventQueue' = <<pending[i]>> \o eventQueue
          /\ ~isProcessingQueue']_vars

(* C5: at most one track-event request is in flight, and only while the     *)
(* drain flag is set; a drain attempt made meanwhile sends nothing.          *)
C5_SingleDrain ==
  /\ Len(pending) <= 1
  /\ pending # <<>> => isProcessingQueue

(* C5 witness: while the page view's request is in flight, track() and        *)
(* trackPropertyView() each queued an event and no second request went out   *)
C5_Witness ==
  /\ isProcessingQueue
  /\ Len(pending) = 1
  /\ pending[1].event_type = "page_view"
  /\ Len(eventQueue) = 2
  /\ {eventQueue[1].event_type, eventQueue[2].event_type} = {"custom", "property_view"}

(* C6: an entry left in the queue with no drain running leads to a drain    *)
(* being started, also when nothing more is enqueued.                        *)
C6_DrainEventuallyRestarted ==
  (eventQueue # <<>> /\ ~isProcessingQueue) ~> isProcessingQueue

----------------------------------------------------------------------------
(* Scroll depth of a blog article *)

Crossed(from, to) ==
  {milestones[i] : i \in {j \in 1..Len(milestones) : from < milestones[j] /\ milestones[j] <= to}}

Elements(seq) == {seq[i] : i \in 1..Len(seq)}

(* C11: with collection allowed, a scroll event reports every milestone the   *)
(* position newly crosses (25, 50 and 75 for a first scroll to 80%), not only *)
(* the lowest one.                                                             *)
C11_ReportsEveryCrossedMilestone ==
  [][\A scrollTop \in ScrollTops : \A docHeight \in DocHeights :
       (canTrack(Tracker) /\ ScrollEvent(scrollTop, docHeight)) =>
          Elements(ScrollDepths(sent')) =
            Crossed(maxScrollDepth, scrollPercent(scrollTop, docHeight))]_vars

----------------------------------------------------------------------------
(* Favourites *)

Returned(c) == favCalls[c].phase = "done" /\ favCalls[c].outcome = "ok"

C14_FailureReturnsLastKnown ==
  \A c \in 1..Len(favCalls) :
    (favCalls[c].phase = "done" /\ favCalls[c].outcome \in {"non2xx", "network"}) =>
       favCalls[c].ret = favCalls[c].read

----------------------------------------------------------------------------
(* Consent transitions *)

Sent(reqs, eventType) == {r \in 1..Len(reqs) : reqs[r].event_type = eventType}

(* C15: a consent change from not granted to granted, by the cookieConsentUpdated *)
(* signal or by setConsent(true), leaves a session in storage and sends one       *)
(* page_view at once.                                                              *)
C15_GrantSendsPageView ==
  [][ (~consentGiven /\ trackingEnabled /\ (CookieConsentUpdated(TRUE) \/ SetConsent(TRUE)))
      => (sr_session' # <<>> /\ Cardinality(Sent(sent', "page_view")) = 1) ]_vars

(* a call of a tracker method, a teardown signal or a consent signal *)
TrackerCall ==
  \/ GatedOperation
  \/ InitCall
  \/ TrackBlogViewCall
  \/ SetupPropertyDurationTrackingCall
  \/ SetupBlogDurationTrackingCall
  \/ \E e \in BOOLEAN : SetTrackingEnabledCall(e)
  \/ \E c \in BOOLEAN : SetConsent(c) \/ CookieConsentUpdated(c)

(* C16: a consent change away from granted removes the Session and the            *)
(* VisitorIdentity record, and from then until the next grant no operation sends  *)
(* an event.                                                                       *)
C16_RevokePurgesAndHalts ==
  [][ /\ (consentGiven /\ (CookieConsentUpdated(FALSE) \/ SetConsent(FALSE)))
           => (sr_visitor' = 0 /\ sr_session' = <<>> /\ ~consentGiven' /\ sent' = <<>>)
      /\ (revokedSinceGrant /\ revokedSinceGrant' /\ TrackerCall) => sent' = <<>> ]_vars

(* C17: the teardown listeners are installed once per page: on an initialized    *)
(* tracker one teardown signal past the dwell threshold reports one page exit,   *)
(* whatever init() calls and consent changes came before, and init() on an       *)
(* initialized tracker changes nothing.                                          *)
C17_TeardownInstalledOnce ==
  [][ /\ ( /\ isInitialized /\ trackingEnabled /\ now - pageLoadTime >= 3000
           /\ \E sig \in TeardownSignals : TeardownSignal(sig) )
           => Cardinality(Sent(sent', "page_exit")) = 1
      /\ (isInitialized /\ InitCall)
           => UNCHANGED <<pageLoadTime, sessionStartTime, listeners>> ]_vars

----------------------------------------------------------------------------
(* Storage failures *)

(* C18: no storage failure reaches the caller: no tracker method throws, and   *)
(* with the storage down getVisitorId() returns an identifier generated for    *)
(* the call, not a stored one.                                                  *)
C18_StorageFailureSwallowed ==
  [][ /\ ~q_threw'
      /\ (storageMode = "down" /\ GetVisitorIdCall) => retVisitor' = nextId ]_vars

----------------------------------------------------------------------------
(* Page view of a page load, queued tracker *)

(* C19: when the session requested by init() is created and nothing was queued *)
(* on this page before, the page_view of the load is queued and sent for the   *)
(* new session.                                                                 *)
C19_PageViewForNewSession ==
  [][ (enqueued = <<>> /\ CreateSessionOk)
      => ( /\ Len(enqueued') = 1
           /\ \E i \in 1..Len(pending') :
                /\ pending'[i].event_type = "page_view"
                /\ pending'[i].session_id = sessionId' ) ]_vars

----------------------------------------------------------------------------
(* Visitor identity *)

(* C20: while storage works and holds a visitor id, getVisitorId() returns it, *)
(* no call but clearVisitorId changes it, and a session that replaces another  *)
(* carries it.                                                                  *)
C20_VisitorIdStable ==
  [][ (storageMode = "ok" /\ sr_visitor # 0)
      => ( /\ GetVisitorIdCall => retVisitor' = sr_visitor
           /\ ~ClearVisitorIdCall => sr_visitor' = sr_visitor
           /\ (sr_session' # <<>> /\ sr_session # <<>>
                 /\ sr_session'[1].session_id # sr_session[1].session_id)
                => sr_session'[1].visitor_id = sr_visitor ) ]_vars

(* C20 witness: the session of the earlier visit expired and was replaced; the *)
(* visitor id of that visit is still stored, returned and on the new session   *)
C20_Witness ==
  /\ storageMode = "ok"
  /\ sessionBranch = "expired"
  /\ sr_visitor = EarlierSession.visitor_id
  /\ retVisitor = sr_visitor
  /\ sr_session # <<>>
  /\ sr_session[1].session_id # EarlierSession.session_id
  /\ sr_session[1].visitor_id = sr_visitor
  /\ now > SESSION_TIMEOUT_MS

----------------------------------------------------------------------------
(* Delivery of the consent-aware tracker's events, src/unnamed/part_009      *)
(* l. 704-770.  trackEvent hands the payload to sendEvent without awaiting   *)
(* it; sendEvent issues one fetch per event and neither queues nor retries.  *)
(* The requests of one page are on the network together and the collector    *)
(* receives each one when its own request arrives.                           *)

MaxGenerated == 3

(* trackEvent(eventType, eventData): the event gets the next generation number *)
(* and its request goes on the network                                          *)
TrackEventSend ==
  /\ evGenerated < MaxGenerated
  /\ LET t == trackEvent(Tracker, "cta_click") IN
       /\ SetTracker(t)
       /\ evGenerated' = evGenerated + Len(t.sent)
       /\ evInFlight' = IF t.sent = <<>> THEN evInFlight ELSE evInFlight \cup {evGenerated + 1}
  /\ UNCHANGED evDelivered
  /\ TrackerFrame
  /\ ScrollFrame
  /\ FavFrame
  /\ UNCHANGED revokedSinceGrant

(* the request of event n reaches the collector; sendEvent resumes and logs *)
RequestArrives(n) ==
  /\ n \in evInFlight
  /\ evInFlight' = evInFlight \ {n}
  /\ evDelivered' = Append(evDelivered, n)
  /\ UNCHANGED evGenerated
  /\ SetTracker(Tracker)
  /\ TrackerFrame
  /\ ScrollFrame
  /\ FavFrame
  /\ UNCHANGED revokedSinceGrant

(* the request of event n fails on the network: sendEvent logs the error, the *)
(* event is dropped                                                            *)
RequestFails(n) ==
  /\ n \in evInFlight
  /\ evInFlight' = evInFlight \ {n}
  /\ UNCHANGED <<evGenerated, evDelivered>>
  /\ SetTracker(Tracker)
  /\ TrackerFrame
  /\ ScrollFrame
  /\ FavFrame
  /\ UNCHANGED revokedSinceGrant

NextOrder ==
  \/ TrackEventSend
  \/ \E n \in 1..MaxGenerated : RequestArrives(n)
  \/ \E n \in 1..MaxGenerated : RequestFails(n)
  \/ \E a \in BOOLEAN : CookieConsentUpdated(a)

InitOrder == Init /\ hasBeaconApi

SpecOrder == InitOrder /\ [][NextOrder]_vars

(* C21: the collector receives the events of one page load in the order the    *)
(* successive trackEvent calls generated them, whatever the order in which the *)
(* requests complete: the generation numbers in evDelivered are increasing.    *)
C21_DeliveredInGenerationOrder ==
  \A i \in 1..Len(evDelivered) : \A j \in 1..Len(evDelivered) :
    i < j => evDelivered[i] < evDelivered[j]

----------------------------------------------------------------------------
(* C22: in the queued tracker a grant of consent re-initializes tracking:     *)
(* when init(config) has run without cookie consent (no visitor id was taken) *)
(* a setCookieConsent(true) creates the visitor id, resumes the stored        *)
(* session or requests a new one, and tracks the page view.                   *)
C22_GrantReinitializes ==
  [][ (q_isInitialized /\ visitorId = 0 /\ ~ls_cookie_consent /\ QSetCookieConsent(TRUE))
        => /\ visitorId' # 0
           /\ sessionId' # 0 \/ createPending' = createPending + 1
           /\ pageViewCount' = pageViewCount + 1 ]_vars

(* C23: a validity check made exactly SESSION_TIMEOUT (30 minutes) after the  *)
(* last activity still treats the session as valid and keeps its id, in the   *)
(* queued tracker as in session.ts: init() with consent resumes the stored    *)
(* session and requests no new one.                                           *)
C23_ValidAtExactTimeout ==
  [][ (/\ ss_session_id # 0
       /\ now - ss_session_start = SESSION_TIMEOUT * 60 * 1000
       /\ QInitCall(TRUE))
        => (sessionId' = ss_session_id /\ createPending' = createPending) ]_vars

----------------------------------------------------------------------------
(* C24: while storage works, the session a getSessionId() call creates (none  *)
(* stored, or the stored one expired) is stored with created_at =             *)
(* last_activity_at = now and page_views = 0; and whatever getSessionId() and *)
(* getSession() calls are made, a stored session has last_activity_at >=      *)
(* created_at.                                                                *)
C24_CreatedSessionFields ==
  [][ /\ (storageMode = "ok" /\ BranchOf(Store) \in {"created", "expired"} /\ GetSessionIdCall)
         => /\ sr_session' # <<>>
            /\ sr_session'[1].session_id = retSession'
            /\ sr_session'[1].created_at = now
            /\ sr_session'[1].last_activity_at = now
            /\ sr_session'[1].page_views = 0
      /\ sr_session' # <<>>
         => sr_session'[1].last_activity_at >= sr_session'[1].created_at ]_vars

(* a call found no stored session, later than the page load, and created one *)
C24_Witness ==
  /\ storageMode = "ok"
  /\ sessionBranch = "created"
  /\ lastSessionCallAt = now
  /\ ticks > 0
  /\ sr_session # <<>>
  /\ sr_session[1].session_id = retSession
  /\ sr_session[1].created_at = now
  /\ sr_session[1].last_activity_at = now
  /\ sr_session[1].page_views = 0

----------------------------------------------------------------------------
(* isNewVisitor(), src/src/lib/session.ts l. 253-262 *)

MaxVisitorTicks == 2

VisitorTicks == {1, 9999}

IsNewVisitorCall ==
  /\ retNewVisitor' = isNewVisitor(Store)
  /\ SetStore(Store)
  /\ UNCHANGED <<storageMode, retSession, retVisitor, lastSessionCallAt, prevSessionCallAt,
                 sessionBranch, clockVars, trackerVars, queueVars, legacyVars>>

NextNewVisitor ==
  \/ IsNewVisitorCall
  \/ GetSessionIdCall
  \/ ClearSessionCall
  \/ \E d \in VisitorTicks : Tick(d, MaxVisitorTicks)

SpecNewVisitor == InitSession /\ [][NextNewVisitor]_vars

(* C25: isNewVisitor() returns true exactly when a session is stored that was  *)
(* created less than 10 seconds ago and has page_views <= 1; in every other    *)
(* state, the one without a stored session included, it returns false.         *)
C25_NewVisitorIffFreshSession ==
  [][ IsNewVisitorCall
        => retNewVisitor' = ( /\ getStoredSession(Store) # <<>>
                              /\ now - getStoredSession(Store)[1].created_at < 10000
                              /\ getStoredSession(Store)[1].page_views <= 1 ) ]_vars

----------------------------------------------------------------------------
(* C26: sendBeacon hands the envelope to navigator.sendBeacon when the browser *)
(* has it and to sendEvent otherwise; either way the call issues exactly one   *)
(* request for the envelope and nothing sends it again.  Checked on the two    *)
(* callers that always reach sendBeacon: trackSearch, and the page-exit        *)
(* handler once the dwell threshold is passed.                                 *)
C26_OneTransmissionPerBeacon ==
  [][ /\ TrackSearchCall
         => sent' = <<Request("search", IF hasBeaconApi THEN "beacon" ELSE "fetch", FALSE)>>
      /\ (/\ listeners = <<"exit">>
          /\ trackingEnabled
          /\ pageLoadTime # 0
          /\ ~BelowDwell(pageLoadTime, 3)
          /\ \E sig \in TeardownSignals : TeardownSignal(sig))
         => sent' = <<Request("page_exit", IF hasBeaconApi THEN "beacon" ELSE "fetch", TRUE)>>
    ]_vars

(* a browser without navigator.sendBeacon: the page exit went out once, by fetch *)
C26_Witness ==
  /\ ~hasBeaconApi
  /\ listeners = <<"exit">>
  /\ sent = <<Request("page_exit", "fetch", TRUE)>>

----------------------------------------------------------------------------
(* C27: a getSessionId() call on a stored session that has not expired adds    *)
(* exactly 1 to page_views, sets last_activity_at to now and leaves            *)
(* session_id, visitor_id and created_at as they were; trackEvent and          *)
(* sendBeacon call getSessionId, so every event sent, of any type, adds one to *)
(* page_views.                                                                 *)
C27_ActivityCountedPerCall ==
  [][ (/\ sr_session # <<>>
       /\ ~isSessionExpired(sr_session[1])
       /\ \/ TrackerGetSessionId
          \/ canTrack(Tracker) /\ TrackEventCall
          \/ TrackSearchCall)
        => sr_session' = <<[sr_session[1] EXCEPT !.last_activity_at = now,
                                                 !.page_views = @ + 1]>> ]_vars

(* a search event was sent later than the page load on a session stored before *)
C27_Witness ==
  /\ sent = <<Request("search", "beacon", FALSE)>>
  /\ sr_session # <<>>
  /\ sr_session[1].session_id = EarlierSession.session_id
  /\ sr_session[1].created_at = EarlierSession.created_at
  /\ sr_session[1].last_activity_at = now
  /\ sr_session[1].last_activity_at > sr_session[1].created_at
  /\ sr_session[1].page_views = EarlierSession.page_views + 1

----------------------------------------------------------------------------
(* Page unload of the queued tracker, src/src/lib/brand.ts l. 368-396, 585-589 *)

MaxUnloadTicks == 2

UnloadTicks == {1000, 59000}

QBeforeUnload ==
  /\ SetQ(unload(QTracker, unloadHandlers))
  /\ QFrame

NextUnload ==
  \/ \E c \in BOOLEAN : QInitCall(c)
  \/ QTrackPageView
  \/ CreateSessionOk
  \/ CreateSessionFailed
  \/ QBeforeUnload
  \/ \E d \in UnloadTicks : Tick(d, MaxUnloadTicks)

SpecUnload == InitQueue /\ [][NextUnload]_vars

(* C28: whenever the queued tracker has a session id at page unload, the       *)
(* unload sends exactly one session update for that session, carrying the      *)
(* page-view count (and the duration); also for a session init() resumed from  *)
(* storage.                                                                    *)
C28_SessionUpdateAtUnload ==
  (unloadSeen /\ sessionId # 0)
    => /\ Len(sessionUpdates) = 1
       /\ sessionUpdates[1].session_id = sessionId
       /\ sessionUpdates[1].page_views_count = pageViewCount

----------------------------------------------------------------------------
(* Legacy tracker, src/unnamed/part_000.  getSessionId, createNewSession and  *)
(* trackEvent call one another; a method takes the tracker's storage L, the   *)
(* depth d of its own frame on the call stack and the depth at which the      *)
(* engine refuses a further call with a RangeError (thousands of frames in a  *)
(* browser, MaxStack at most here).  The RangeError is thrown in the calling  *)
(* frame and caught by that frame's try/catch.                                *)

MaxStack == 9
MaxLegacyIds == 8
MaxLegacyTicks == 2

StackLimits == {MaxStack - 2, MaxStack - 1, MaxStack}

LegacyStorageModes == {"ok", "nowrite", "down", "volatile"}

sessionDuration == 30 * 60 * 1000

Legacy ==
  [session |-> lg_session,
   expiry |-> lg_expiry,
   next |-> lg_nextId,
   trackingEnabled |-> lg_trackingEnabled,
   sent |-> <<>>,
   overflow |-> FALSE]

generateSessionId(L) == [L |-> [L EXCEPT !.next = @ + 1], ret |-> L.next]

(* setItem of the expiry inside its own try/catch *)
extendSession(L) ==
  IF lg_storage = "ok" THEN [L EXCEPT !.expiry = now + sessionDuration] ELSE L

RECURSIVE lg_getSessionId(_, _, _)
RECURSIVE lg_createNewSession(_, _, _)
RECURSIVE lg_trackEvent(_, _, _, _)

lg_getSessionId(L, d, limit) ==
  IF lg_storage = "down" THEN generateSessionId(L)
  ELSE LET sessionId_ == IF lg_storage = "volatile" THEN 0 ELSE L.session
           expiry == IF lg_storage = "volatile" THEN 0 ELSE L.expiry
       IN IF sessionId_ # 0 /\ expiry # 0 /\ now < expiry
            THEN [L |-> extendSession(L), ret |-> sessionId_]
          ELSE IF d + 1 > limit
            THEN generateSessionId([L EXCEPT !.overflow = TRUE])
          ELSE lg_createNewSession(L, d + 1, limit)

lg_createNewSession(L, d, limit) ==
  LET g == generateSessionId(L) IN
  IF lg_storage \in {"nowrite", "down"} THEN generateSessionId(g.L)
  ELSE LET w == IF lg_storage = "ok"
                  THEN [g.L EXCEPT !.session = g.ret, !.expiry = now + sessionDuration]
                  ELSE g.L
       IN IF d + 1 > limit
            THEN generateSessionId([w EXCEPT !.overflow = TRUE])
            ELSE [L |-> lg_trackEvent(w, "session_start", d + 1, limit), ret |-> g.ret]

(* trackEvent to its await: the track-event request is on its way *)
lg_trackEvent(L, eventType, d, limit) ==
  IF ~L.trackingEnabled THEN L
  ELSE IF d + 1 > limit THEN [L EXCEPT !.overflow = TRUE]
  ELSE LET r == lg_getSessionId(L, d + 1, limit)
       IN [r.L EXCEPT !.sent = Append(@, [event_type |-> eventType, session_id |-> r.ret])]

SetLegacy(L) ==
  /\ L.next <= MaxLegacyIds + 1
  /\ lg_session' = L.session
  /\ lg_expiry' = L.expiry
  /\ lg_nextId' = L.next
  /\ lg_sent' = L.sent
  /\ lg_overflow' = L.overflow

LegacyFrame ==
  UNCHANGED <<lg_storage, lg_trackingEnabled, clockVars, idVars, trackerVars, queueVars>>

(* window.StratosTracker.getSessionId() called by a page script *)
LegacyGetSessionId(limit) ==
  /\ LET r == lg_getSessionId(Legacy, 1, limit) IN
       /\ SetLegacy(r.L)
       /\ lg_ret' = r.ret
  /\ LegacyFrame

(* trackPageView(), or window.StratosTracker.trackEvent('page_view') *)
LegacyTrackPageView(limit) ==
  /\ SetLegacy(lg_trackEvent(Legacy, "page_view", 1, limit))
  /\ UNCHANGED lg_ret
  /\ LegacyFrame

LegacyTicks == {1, sessionDuration}

InitLegacy ==
  /\ InitStore
  /\ storageMode = "ok"
  /\ sr_visitor = 0
  /\ sr_session = <<>>
  /\ NoTracker
  /\ NoQueueTracker
  /\ lg_storage \in LegacyStorageModes
  /\ lg_trackingEnabled \in BOOLEAN
  /\ \/ lg_session = 0 /\ lg_expiry = 0
     \/ lg_session = 1 /\ lg_expiry = now + sessionDuration
  /\ lg_nextId = 2
  /\ lg_sent = <<>>
  /\ lg_ret = 0
  /\ lg_overflow = FALSE

NextLegacy ==
  \/ \E limit \in StackLimits : LegacyGetSessionId(limit)
  \/ \E limit \in StackLimits : LegacyTrackPageView(limit)
  \/ \E d \in LegacyTicks : Tick(d, MaxLegacyTicks)

SpecLegacy == InitLegacy /\ [][NextLegacy]_vars

SessionStarts(reqs) ==
  Cardinality({i \in 1..Len(reqs) : reqs[i].event_type = "session_start"})

(* what getItem hands getSessionId is a session that is still valid *)
LegacySessionValid ==
  /\ lg_storage \in {"ok", "nowrite"}
  /\ lg_session # 0
  /\ lg_expiry # 0
  /\ now < lg_expiry

(* C29: in the legacy tracker (tracking enabled) a getSessionId() call that    *)
(* finds no valid session and can write storage returns without exhausting the *)
(* call stack and sends exactly one session_start event, also when the values  *)
(* written cannot be read back.                                                *)
C29_OneSessionStart ==
  [][ (/\ lg_trackingEnabled
       /\ lg_storage \in {"ok", "volatile"}
       /\ ~LegacySessionValid
       /\ \E limit \in StackLimits : LegacyGetSessionId(limit))
        => (~lg_overflow' /\ SessionStarts(lg_sent') = 1) ]_vars

----------------------------------------------------------------------------
(* C30: isProcessingQueue is set only while a drain loop is running, that is   *)
(* while the loop awaits a track-event request; every exit of a loop (queue    *)
(* emptied, or a failed transmission) leaves it false; and on an idle tracker  *)
(* with a session a track() call starts a drain.                               *)
C30_DrainFlagReleased ==
  [][ /\ isProcessingQueue' => pending' # <<>>
      /\ Len(pending') < Len(pending) => ~isProcessingQueue'
      /\ (~isProcessingQueue /\ q_isInitialized /\ sessionId # 0 /\ QTrack)
           => (isProcessingQueue' /\ Len(pending') = 1) ]_vars

(* a drain delivered an event, a later one stopped on a failed transmission: *)
(* the event is back in the queue and the flag is down                       *)
C30_Witness ==
  /\ ~isProcessingQueue
  /\ pending = <<>>
  /\ eventQueue # <<>>
  /\ accepted # <<>>

====
